---- MODULE Spec2Model ----
(***************************************************************************)
(* huse: the JSON writer (code/huse/JsonSerializer.cpp) and the reader     *)
(* node protocol (code/huse/Deserializer.hpp) as state machines.           *)
(*                                                                         *)
(* The output stream m_out is a sequence of bytes (0..255).  A char of a   *)
(* std::string_view is a byte; its value as the C++ type char is           *)
(* CharValue(c), which depends on whether the build's char is signed.      *)
(***************************************************************************)
EXTENDS Integers, Sequences, FiniteSets, TLC

VARIABLES
    platform,   \* the build: [charSigned, longBytes]
    ser,        \* the JsonSerializer objects, indexed by their m_pretty
    scopes,     \* the caller: its open scopes, innermost last
    rootDone,   \* the caller: the top-level value has been written
    calls,      \* the calls made so far, in order
    rd,         \* the reader: its nodes, the backend's scopes, a failed assertion
    rlast,      \* the reader: the last call made on a node
    rret,       \* the reader's caller: what the last call returned, its value v
    query       \* a type, or a type tag and a mask, and what is selected for it

writerVars == <<platform, ser, scopes, rootDone, calls>>
readerVars == <<rd, rlast, rret>>
vars == <<writerVars, readerVars, query>>

-----------------------------------------------------------------------------
(* Bounds of the model. *)

\* Calls per writer session.
MaxCalls == 6

\* Calls per session of number writes.
MaxNumCalls == 3

\* Bytes per string written.
MaxStrLen == 2

\* Compound nodes constructed per reader session.
MaxNodes == 4

\* Calls of obj() and ar() per session of reads of a document.
MaxOpens == 3

-----------------------------------------------------------------------------
(* Bytes and text. *)

\* The bytes of the characters the writer emits as punctuation.
ChQuote     == <<34>>
ChBackslash == <<92>>
ChComma     == <<44>>
ChColon     == <<58>>
ChNewline   == <<10>>
ChSpace     == <<32>>
TextTrue    == <<116, 114, 117, 101>>
TextFalse   == <<102, 97, 108, 115, 101>>

\* The builds the code is compiled for: char is signed on x86 and unsigned on
\* ARM Linux; long has 8 bytes on LP64 and 4 on Windows (LLP64).
Platforms == [charSigned : BOOLEAN, longBytes : {4, 8}]

\* The value of byte b as the C++ type char.
CharValue(b) == IF platform.charSigned /\ b >= 128 THEN b - 256 ELSE b

-----------------------------------------------------------------------------
(* The JsonSerializer object. *)

\* JsonSerializer::JsonSerializer: m_out and m_pretty from the arguments, the
\* other members from their initialisers.  exc is the exception in flight
\* ("" when there is none): a session with an exception in flight has ended.
\* asserted: an assert of the writer has failed, which ends the program.
NewSerializer(pretty) ==
    [m_out |-> <<>>, m_pretty |-> pretty, m_depth |-> 0,
     m_hasValue |-> FALSE, m_arrayJustOpen |-> FALSE, exc |-> "",
     asserted |-> FALSE]

\* JsonSerializer::~JsonSerializer
SerializerDtor(s) ==
    IF s.m_depth = 0 THEN s ELSE [s EXCEPT !.asserted = TRUE]

Put(s, bytes) == [s EXCEPT !.m_out = @ \o bytes]

\* JsonSerializer::throwException: the body is empty, control returns.
ThrowException(s, text) == s

\* The indent of n nesting levels: the loop of JsonSerializer::newLine.
Indent(n) == [i \in 1..(2 * n) |-> 32]

\* A newLine that indents by one space per level.
NewLine_OneSpace(s) ==
    IF ~s.m_pretty THEN s
    ELSE Put(s, ChNewline \o [i \in 1..s.m_depth |-> 32])

\* JsonSerializer::newLine
NewLine(s) ==
    IF ~s.m_pretty THEN s
    ELSE Put(s, ChNewline \o Indent(s.m_depth))

\* A prepareWriteVal that forgets the comma.
PrepareWriteVal_NoComma(s) ==
    LET s1 == IF s.m_hasValue THEN NewLine(s)
              ELSE IF s.m_arrayJustOpen
                   THEN [NewLine(s) EXCEPT !.m_arrayJustOpen = FALSE]
                   ELSE s
    IN  [s1 EXCEPT !.m_hasValue = TRUE]

\* JsonSerializer::prepareWriteVal
PrepareWriteVal(s) ==
    LET s1 == IF s.m_hasValue THEN NewLine(Put(s, ChComma))
              ELSE IF s.m_arrayJustOpen
                   THEN [NewLine(s) EXCEPT !.m_arrayJustOpen = FALSE]
                   ELSE s
    IN  [s1 EXCEPT !.m_hasValue = TRUE]

\* JsonSerializer::writeSimpleValue: text is what operator<< prints for val.
WriteSimpleValue(s, text) == Put(PrepareWriteVal(s), text)

\* JsonSerializer::write(bool)
WriteBool(s, val) == WriteSimpleValue(s, IF val THEN TextTrue ELSE TextFalse)

-----------------------------------------------------------------------------
(* Integers.  A C++ integer of up to 64 bits is its sign and its magnitude *)
(* in three limbs of eight decimal digits: hi * 10^16 + mid * 10^8 + lo.   *)

IntVal(neg, hi, mid, lo) == [neg |-> neg, hi |-> hi, mid |-> mid, lo |-> lo]

MagLess(a, b) ==
    \/ a.hi < b.hi
    \/ a.hi = b.hi /\ a.mid < b.mid
    \/ a.hi = b.hi /\ a.mid = b.mid /\ a.lo < b.lo

\* a <= b on the integers
IntLeq(a, b) ==
    CASE a.neg /\ ~b.neg  -> TRUE
      [] ~a.neg /\ b.neg  -> FALSE
      [] ~a.neg /\ ~b.neg -> ~MagLess(b, a)
      [] OTHER            -> ~MagLess(a, b)

RECURSIVE Digits(_)
Digits(n) == IF n < 10 THEN <<48 + n>> ELSE Digits(n \div 10) \o <<48 + (n % 10)>>

Pad8(n) == LET d == Digits(n) IN [i \in 1..(8 - Len(d)) |-> 48] \o d

\* operator<< of an integer on a stream in its default (decimal) base
DecText(v) ==
    (IF v.neg THEN <<45>> ELSE <<>>) \o
    (IF v.hi > 0 THEN Digits(v.hi) \o Pad8(v.mid) \o Pad8(v.lo)
     ELSE IF v.mid > 0 THEN Digits(v.mid) \o Pad8(v.lo)
     ELSE Digits(v.lo))

\* The integer types JsonSerializer::write is overloaded for.
SmallIntTypes == {"short", "unsigned short", "int", "unsigned int"}
BigIntTypes   == {"long", "unsigned long", "long long", "unsigned long long"}

IsSigned(T) == T \in {"short", "int", "long", "long long"}

SizeOf(T) ==
    CASE T \in {"short", "unsigned short"}          -> 2
      [] T \in {"int", "unsigned int"}              -> 4
      [] T \in {"long", "unsigned long"}            -> platform.longBytes
      [] OTHER                                      -> 8

\* JsonSerializer::write(short | unsigned short | int | unsigned int)
WriteSmallInt(s, val) == WriteSimpleValue(s, DecText(val))

\* MAX_D and MIN_D of writePotentiallyBigIntegerValue: 9007199254740992
MAX_D == IntVal(FALSE, 0, 90071992, 54740992)
MIN_D == IntVal(TRUE, 0, 90071992, 54740992)

\* JsonSerializer::writePotentiallyBigIntegerValue<T>
WritePotentiallyBigIntegerValue(s, T, val) ==
    IF SizeOf(T) <= 4
    THEN WriteSimpleValue(s, DecText(val))
    ELSE IF IsSigned(T)
         THEN IF IntLeq(MIN_D, val) /\ IntLeq(val, MAX_D)
              THEN WriteSimpleValue(s, DecText(val))
              ELSE ThrowException(s, "integer too big")
         ELSE IF IntLeq(val, MAX_D)
              THEN WriteSimpleValue(s, DecText(val))
              ELSE ThrowException(s, "integer too big")

\* JsonSerializer::write(T) for each integer type T
WriteInteger(s, T, val) ==
    IF T \in SmallIntTypes THEN WriteSmallInt(s, val)
    ELSE WritePotentiallyBigIntegerValue(s, T, val)

\* The least and the greatest value of type T.
TypeMax(T) ==
    CASE SizeOf(T) = 2 ->
           IF IsSigned(T) THEN IntVal(FALSE, 0, 0, 32767) ELSE IntVal(FALSE, 0, 0, 65535)
      [] SizeOf(T) = 4 ->
           IF IsSigned(T) THEN IntVal(FALSE, 0, 21, 47483647)
           ELSE IntVal(FALSE, 0, 42, 94967295)
      [] OTHER ->
           IF IsSigned(T) THEN IntVal(FALSE, 922, 33720368, 54775807)
           ELSE IntVal(FALSE, 1844, 67440737, 9551615)

TypeMin(T) ==
    IF ~IsSigned(T) THEN IntVal(FALSE, 0, 0, 0)
    ELSE CASE SizeOf(T) = 2 -> IntVal(TRUE, 0, 0, 32768)
           [] SizeOf(T) = 4 -> IntVal(TRUE, 0, 21, 47483648)
           [] OTHER         -> IntVal(TRUE, 922, 33720368, 54775808)

IsValueOf(T, v) == IntLeq(TypeMin(T), v) /\ IntLeq(v, TypeMax(T))

-----------------------------------------------------------------------------
(* Floating point.  A float or double is its IEEE-754 sign, its exponent   *)
(* field (all ones for infinity and NaN, here ExpAllOnes), whether its     *)
(* fraction field is zero, and the text operator<< prints for it.          *)

FloatVal(sign, exp, fracZero, text) ==
    [sign |-> sign, exp |-> exp, fracZero |-> fracZero, text |-> text]

ExpAllOnes == "all ones"

\* std::isfinite
IsFinite(v) == v.exp # ExpAllOnes

\* JsonSerializer::writeFloatValue<T>
WriteFloatValue(s, val) ==
    IF IsFinite(val)
    THEN WriteSimpleValue(s, val.text)
    ELSE ThrowException(s, "float not finite")

-----------------------------------------------------------------------------
(* Strings. *)

\* One iteration of the loop of writeEscapedUTF8String: what it emits for
\* the byte b, whose value as a char is c.  In the last branch operator<<
\* is applied to c, a char, which it writes as that character: std::hex
\* only changes how integers are written.
EscapeChar(b) ==
    LET c == CharValue(b) IN
    CASE c = 34 -> <<92, 34>>
      [] c = 92 -> <<92, 92>>
      [] c = 10 -> <<92, 110>>
      [] c = 13 -> <<92, 114>>
      [] c = 8  -> <<92, 98>>
      [] c = 9  -> <<92, 116>>
      [] c = 12 -> <<92, 102>>
      [] OTHER  ->
           IF c >= 32 THEN <<b>>
           ELSE (IF c < 16 THEN <<92, 117, 48, 48, 48>> ELSE <<92, 117, 48, 48>>)
                \o <<b>>

RECURSIVE EscapeAll(_)
EscapeAll(str) ==
    IF str = <<>> THEN <<>> ELSE EscapeChar(Head(str)) \o EscapeAll(Tail(str))

\* The text JsonSerializer::writeEscapedUTF8String appends to m_out.
EscapedText(str) == ChQuote \o EscapeAll(str) \o ChQuote

\* JsonSerializer::writeEscapedUTF8String
WriteEscapedUTF8String(s, str) == Put(s, EscapedText(str))

\* JsonSerializer::write(std::string_view)
WriteString(s, val) == WriteEscapedUTF8String(PrepareWriteVal(s), val)

-----------------------------------------------------------------------------
(* Keys and compound scopes. *)

\* A pushKey that, in pretty mode, puts a space after the colon.
PushKey_PrettySpace(s, k) ==
    LET s1 == IF s.m_hasValue THEN Put(s, ChComma) ELSE s
        s2 == Put(WriteEscapedUTF8String(NewLine(s1), k), ChColon)
        s3 == IF s.m_pretty THEN Put(s2, ChSpace) ELSE s2
    IN  [s3 EXCEPT !.m_hasValue = FALSE]

\* JsonSerializer::pushKey
PushKey(s, k) ==
    LET s1 == IF s.m_hasValue THEN Put(s, ChComma) ELSE s
        s2 == Put(WriteEscapedUTF8String(NewLine(s1), k), ChColon)
    IN  [s2 EXCEPT !.m_hasValue = FALSE]

\* A writeRawJson that does not record that the object has a member now.
WriteRawJson_NoHasValue(s, key, json) == Put(PushKey(s, key), json)

\* JsonSerializer::writeRawJson
WriteRawJson(s, key, json) ==
    [Put(PushKey(s, key), json) EXCEPT !.m_hasValue = TRUE]

\* An open that leaves m_hasValue as prepareWriteVal set it.
Open_KeepsHasValue(s, o) ==
    [Put(PrepareWriteVal(s), o) EXCEPT !.m_depth = @ + 1]

\* JsonSerializer::open
Open(s, o) ==
    [Put(PrepareWriteVal(s), o) EXCEPT !.m_hasValue = FALSE, !.m_depth = @ + 1]

\* A close without the assert.
Close_Unchecked(s, c) ==
    LET s1 == [s EXCEPT !.m_depth = @ - 1]
        s2 == IF s1.m_hasValue THEN NewLine(s1) ELSE s1
    IN  [Put(s2, c) EXCEPT !.m_hasValue = TRUE]

\* JsonSerializer::close
Close(s, c) ==
    IF s.m_depth = 0 THEN [s EXCEPT !.asserted = TRUE]
    ELSE LET s1 == [s EXCEPT !.m_depth = @ - 1]
             s2 == IF s1.m_hasValue THEN NewLine(s1) ELSE s1
         IN  [Put(s2, c) EXCEPT !.m_hasValue = TRUE]

OpenObject(s)  == Open(s, <<123>>)
CloseObject(s) == Close(s, <<125>>)
OpenArray(s)   == [Open(s, <<91>>) EXCEPT !.m_arrayJustOpen = TRUE]
CloseArray(s)  ==
    LET s1 == Close(s, <<93>>)
    IN  IF s1.asserted THEN s1 ELSE [s1 EXCEPT !.m_arrayJustOpen = FALSE]

-----------------------------------------------------------------------------
(* The reader: DeserializerNode, DeserializerObject, DeserializerArray and *)
(* the Deserializer they share.  A node is named by a number; 0 is the     *)
(* null pointer and Root is the Deserializer, itself a node with no parent.*)
(* impl::UniqueStack, the base of every node, keeps the node's parent and  *)
(* whether the node has an open child.  A failed assertion ends the        *)
(* program.                                                                *)

\* DeserializerNode::Type::Value
True    == 1
False   == 2
Boolean == 3
Integer == 4
Float   == 8
Number  == 12
String  == 16
Object  == 32
Array   == 64
Null    == 128

\* The bitwise and of two ints that are not negative.
RECURSIVE BitAnd(_, _)
BitAnd(a, b) ==
    IF a = 0 \/ b = 0 THEN 0
    ELSE (a % 2) * (b % 2) + 2 * BitAnd(a \div 2, b \div 2)

\* An is() that asks for every bit of the mask.
TypeIs_AllBits(m_t, mask) == BitAnd(m_t, mask) = mask

\* DeserializerNode::Type::is: the int m_t & mask, converted to bool
TypeIs(m_t, mask) == BitAnd(m_t, mask) # 0

\* What the detection traits see of a type T.  For each hook, the call
\* expression a trait names is ill-formed ("none": T has no such hook), or is
\* of type void ("void"), or is of another type ("other": the hook returns a
\* value); read tells whether the backend has a read(T&), which returns void.
Hooks == {"none", "void", "other"}
Types == [method : Hooks, func : Hooks, read : BOOLEAN,
          flatMethod : Hooks, flatFunc : Hooks]

\* impl::HasDeserializeMethod<T>::value, and the like: the primary template,
\* with its second argument void by default, is false_type; the partial
\* specialization <T, decltype(call)> is true_type and is the one chosen
\* when decltype(call) is that void.
HasDeserializeMethod(T)     == T.method = "void"
HasDeserializeFunc(T)       == T.func = "void"
HasDeserializerRead(T)      == T.read
HasDeserializeFlatMethod(T) == T.flatMethod = "void"
HasDeserializeFlatFunc(T)   == T.flatFunc = "void"

\* DeserializerNode::val<T>: the branch of the if constexpr chain that is
\* instantiated.  cannot_deserialize is declared nowhere: instantiating the
\* last branch is an error of the build.
ValStrategy(T) ==
    IF HasDeserializeMethod(T) THEN "method"
    ELSE IF HasDeserializeFunc(T) THEN "function"
    ELSE IF HasDeserializerRead(T) THEN "read"
    ELSE "build rejected"

\* DeserializerObject::flatval<T>
FlatvalStrategy(T) ==
    IF HasDeserializeFlatMethod(T) THEN "flat method"
    ELSE IF HasDeserializeFlatFunc(T) THEN "flat function"
    ELSE "build rejected"

NullNode == 0
Root     == 1
NodeIds  == Root..(Root + MaxNodes)

Unborn == [state |-> "unborn", kind |-> "", m_parent |-> NullNode, m_hasChild |-> FALSE]

\* impl::UniqueStack::UniqueStack(parent): the parent must have no open child,
\* and has one from now on.
UniqueStackCtor(r, n, kind, parent) ==
    IF parent # NullNode /\ r.nodes[parent].m_hasChild
    THEN [r EXCEPT !.asserted = TRUE]
    ELSE LET born == [state |-> "alive", kind |-> kind,
                      m_parent |-> parent, m_hasChild |-> FALSE]
         IN  [r EXCEPT !.nodes = IF parent = NullNode
                                 THEN [@ EXCEPT ![n] = born]
                                 ELSE [@ EXCEPT ![n] = born,
                                                ![parent].m_hasChild = TRUE]]

\* impl::UniqueStack::~UniqueStack: the node must have no open child; its
\* parent has none from now on.
UniqueStackDtor(r, n) ==
    IF r.nodes[n].m_hasChild
    THEN [r EXCEPT !.asserted = TRUE]
    ELSE LET parent == r.nodes[n].m_parent
         IN  [r EXCEPT !.nodes = IF parent = NullNode
                                 THEN [@ EXCEPT ![n].state = "dead"]
                                 ELSE [@ EXCEPT ![n].state = "dead",
                                                ![parent].m_hasChild = FALSE]]

\* A value of the document: its type hint, the keys of an object, the values
\* of a compound, the number of a primitive.
Value(t, keys, vals, v) == [t |-> t, keys |-> keys, vals |-> vals, v |-> v]

IntValue(v)          == Value("int", <<>>, <<>>, v)
StringValue          == Value("string", <<>>, <<>>, 0)
ObjectValue(ks, vs)  == Value("object", ks, vs, 0)
ArrayValue(vs)       == Value("array", <<>>, vs, 0)
NoValue              == Value("none", <<>>, <<>>, 0)

\* The backend's record of a compound it has entered: the compound and the
\* position of the next key loadNextKey returns.
Frame(val) == [val |-> val, next |-> 1]

\* What the backend's last call returned: tryLoadKey's bool, loadNextKey's
\* optional name.
NoReturn == [found |-> FALSE, hasName |-> FALSE, name |-> ""]

\* What the node's last call returned: a node (key, optkey, nextkey) and a
\* key's name (nextkey); the null pointer and the empty name by default.
NoResult == [node |-> NullNode, name |-> ""]

\* The caller's variable v: an int, or a std::optional<int> that may be empty.
Holding(x) == [has |-> TRUE, val |-> x]
Empty      == [has |-> FALSE, val |-> 0]

\* An exception of the backend is in flight.
Threw(r) == r.exc # ""

\* Deserializer::throwException
ReaderThrow(r, msg) == [r EXCEPT !.exc = msg]

\* The calls the backend has received during the caller's current call.
Traced(r, call) == [r EXCEPT !.trace = Append(@, call)]

Front(s) == SubSeq(s, 1, Len(s) - 1)

\* Deserializer::loadObject / loadArray: the backend enters the compound at
\* the current position; it fails if the value there is of another type.
Load(r, kind) ==
    IF r.pending.t = kind
    THEN [r EXCEPT !.loaded = Append(@, kind), !.frames = Append(@, Frame(r.pending))]
    ELSE ReaderThrow(r, "type mismatch")

LoadObject(r) == Load(Traced(r, "loadObject"), "object")
LoadArray(r)  == Load(Traced(r, "loadArray"), "array")

\* Deserializer::unloadObject / unloadArray: the backend leaves the compound
\* it is in; the current position is that compound again.
Unload(r) ==
    [r EXCEPT !.loaded = Front(@), !.frames = Front(@),
              !.pending = r.frames[Len(r.frames)].val]

UnloadObject(r) == Unload(Traced(r, "unloadObject"))
UnloadArray(r)  == Unload(Traced(r, "unloadArray"))

\* The compound the backend is in.
CurrentCompound(r) == r.frames[Len(r.frames)].val

\* The position of key k among keys ks, 0 if it is not one of them.
KeyIndex(ks, k) ==
    IF \E i \in 1..Len(ks) : ks[i] = k
    THEN CHOOSE i \in 1..Len(ks) : ks[i] = k
    ELSE 0

\* Deserializer::loadKey: throw if no key
LoadKey(r, k) ==
    LET r1 == Traced(r, "loadKey")
        i  == KeyIndex(CurrentCompound(r).keys, k)
    IN  IF i = 0 THEN ReaderThrow(r1, "no key")
        ELSE [r1 EXCEPT !.pending = CurrentCompound(r).vals[i]]

\* Deserializer::tryLoadKey: load and return true if the key exists,
\* otherwise return false
TryLoadKey(r, k) ==
    LET r1 == Traced(r, "tryLoadKey")
        i  == KeyIndex(CurrentCompound(r).keys, k)
    IN  IF i = 0 THEN [r1 EXCEPT !.bret.found = FALSE]
        ELSE [r1 EXCEPT !.bret.found = TRUE, !.pending = CurrentCompound(r).vals[i]]

\* Deserializer::loadIndex: throw if no index (index counts from 0)
LoadIndex(r, index) ==
    LET r1 == Traced(r, "loadIndex")
    IN  IF index < 0 \/ index >= Len(CurrentCompound(r).vals)
        THEN ReaderThrow(r1, "no index")
        ELSE [r1 EXCEPT !.pending = CurrentCompound(r).vals[index + 1]]

\* Deserializer::loadNextKey: load the next key and return it, or nullopt if
\* there is no next key
LoadNextKey(r) ==
    LET r1 == Traced(r, "loadNextKey")
        f  == r.frames[Len(r.frames)]
    IN  IF f.next > Len(f.val.keys)
        THEN [r1 EXCEPT !.bret.hasName = FALSE, !.bret.name = ""]
        ELSE [r1 EXCEPT !.bret.hasName = TRUE, !.bret.name = f.val.keys[f.next],
                        !.pending = f.val.vals[f.next],
                        !.frames[Len(r.frames)].next = f.next + 1]

\* Deserializer::read(int& val): the number at the current position is
\* stored in val; it fails if the value there is no integer.
Read(r) ==
    LET r1 == Traced(r, "read")
    IN  IF r.pending.t = "int"
        THEN [r1 EXCEPT !.v.val = r.pending.v]
        ELSE ReaderThrow(r1, "type mismatch")

\* DeserializerNode::DeserializerNode
DeserializerNodeCtor(r, n, kind, parent) == UniqueStackCtor(r, n, kind, parent)

\* DeserializerObject::DeserializerObject and DeserializerArray::
\* DeserializerArray: the base is constructed, then the body calls
\* loadObject / loadArray.  When that throws, the object was never
\* constructed: its base is destroyed and its own destructor does not run.
CompoundCtor(r, n, kind, parent) ==
    LET r1 == DeserializerNodeCtor(r, n, kind, parent)
        r2 == IF kind = "object" THEN LoadObject(r1) ELSE LoadArray(r1)
    IN  IF r1.asserted THEN r1
        ELSE IF Threw(r2) THEN UniqueStackDtor(r2, n)
        ELSE r2

\* DeserializerObject::DeserializerObject
DeserializerObjectCtor(r, n, parent) == CompoundCtor(r, n, "object", parent)

\* DeserializerArray::DeserializerArray
DeserializerArrayCtor(r, n, parent) == CompoundCtor(r, n, "array", parent)

\* A destructor of DeserializerObject that does not call unloadObject.
DeserializerObjectDtor_NoUnload(r, n) == UniqueStackDtor(r, n)

\* DeserializerObject::~DeserializerObject, then the bases' destructors
DeserializerObjectDtor(r, n) == UniqueStackDtor(UnloadObject(r), n)

\* DeserializerArray::~DeserializerArray, then the bases' destructors
DeserializerArrayDtor(r, n) == UniqueStackDtor(UnloadArray(r), n)

\* DeserializerNode::obj, called on node n; c names the object returned
NodeObj(r, n, c) == DeserializerObjectCtor(r, c, n)

\* An ar() that constructs the array with the default parent, nullptr.
NodeAr_NoParent(r, n, c) == DeserializerArrayCtor(r, c, NullNode)

\* DeserializerNode::ar, called on node n; c names the array returned
NodeAr(r, n, c) == DeserializerArrayCtor(r, c, n)

\* int, as the detection traits see it: no hooks, a read of the backend.
IntType == [method |-> "none", func |-> "none", read |-> TRUE,
            flatMethod |-> "none", flatFunc |-> "none"]

\* DeserializerNode::val<int>, called on node n with the caller's v
NodeVal(r, n) ==
    IF ValStrategy(IntType) = "read" THEN Read(r) ELSE r

\* A key() that looks the key up with tryLoadKey and ignores the answer.
ObjectKey_TryLoad(r, n, k) == [TryLoadKey(r, k) EXCEPT !.ret.node = n]

\* DeserializerObject::key, called on object n: returns *this
ObjectKey(r, n, k) ==
    LET r1 == LoadKey(r, k)
    IN  IF Threw(r1) THEN r1 ELSE [r1 EXCEPT !.ret.node = n]

\* DeserializerObject::optkey: returns this or nullptr
ObjectOptKey(r, n, k) ==
    LET r1 == TryLoadKey(r, k)
    IN  [r1 EXCEPT !.ret.node = IF r1.bret.found THEN n ELSE NullNode]

\* A nextkey() that does not test the name it got.
ObjectNextKey_NoTest(r, n) ==
    LET r1 == LoadNextKey(r)
    IN  [r1 EXCEPT !.ret = [node |-> n, name |-> r1.bret.name]]

\* DeserializerObject::nextkey: returns {} or {*name, this}
ObjectNextKey(r, n) ==
    LET r1 == LoadNextKey(r)
    IN  IF ~r1.bret.hasName THEN [r1 EXCEPT !.ret = NoResult]
        ELSE [r1 EXCEPT !.ret = [node |-> n, name |-> r1.bret.name]]

\* DeserializerObject::obj(k): key(k).obj(); c names the object returned
ObjectObj(r, n, k, c) ==
    LET r1 == ObjectKey(r, n, k)
    IN  IF Threw(r1) THEN r1 ELSE NodeObj(r1, r1.ret.node, c)

\* DeserializerObject::ar(k): key(k).ar(); c names the array returned
ObjectAr(r, n, k, c) ==
    LET r1 == ObjectKey(r, n, k)
    IN  IF Threw(r1) THEN r1 ELSE NodeAr(r1, r1.ret.node, c)

\* DeserializerObject::val(k, T& v): key(k).val(v)
ObjectVal(r, n, k) ==
    LET r1 == ObjectKey(r, n, k)
    IN  IF Threw(r1) THEN r1 ELSE NodeVal(r1, r1.ret.node)

\* A val(k, std::optional<T>&) that leaves v alone when the key is absent.
ObjectValOptional_NoReset(r, n, k) ==
    LET r1 == ObjectOptKey(r, n, k)
    IN  IF r1.ret.node # NullNode
        THEN NodeVal([r1 EXCEPT !.v = Holding(0)], r1.ret.node)
        ELSE r1

\* DeserializerObject::val(k, std::optional<T>& v): v.emplace() makes v hold
\* a value-initialised T, which val then reads into; v.reset() empties v.
ObjectValOptional(r, n, k) ==
    LET r1 == ObjectOptKey(r, n, k)
    IN  IF r1.ret.node # NullNode
        THEN NodeVal([r1 EXCEPT !.v = Holding(0)], r1.ret.node)
        ELSE [r1 EXCEPT !.v = Empty]

\* DeserializerObject::optval(k, T& v)
ObjectOptVal(r, n, k) ==
    LET r1 == ObjectOptKey(r, n, k)
    IN  IF r1.ret.node # NullNode THEN NodeVal(r1, r1.ret.node) ELSE r1

\* DeserializerArray::index: returns *this
ArrayIndex(r, n, index) ==
    LET r1 == LoadIndex(r, index)
    IN  IF Threw(r1) THEN r1 ELSE [r1 EXCEPT !.ret.node = n]

\* Deserializer::Deserializer
NewReader ==
    LET fresh == [nodes |-> [n \in NodeIds |-> Unborn], loaded |-> <<>>,
                  asserted |-> FALSE, frames |-> <<>>, pending |-> NoValue,
                  exc |-> "", trace |-> <<>>, bret |-> NoReturn,
                  ret |-> NoResult, v |-> Empty]
    IN  DeserializerNodeCtor(fresh, Root, "root", NullNode)

\* The caller's record of its last call: the method, the key or index it
\* passed, v before the call, and the keys nextkey has returned on each node.
NoCall == [op |-> "", key |-> "", index |-> 0, old |-> Empty,
           seen |-> [n \in NodeIds |-> <<>>]]

\* No query has been made.
NoQuery == [of |-> "", t |-> 0, mask |-> 0, answer |-> "?"]

ReaderInit ==
    /\ rd = NewReader
    /\ rlast = [op |-> "", node |-> NullNode]
    /\ rret = NoCall

-----------------------------------------------------------------------------
(* The caller of the writer.  It makes well-formed call sequences: one     *)
(* top-level value; in an array, values; in an object, keys, each followed *)
(* by exactly one value; a scope is closed by the call that matches the    *)
(* call that opened it, innermost first.  Every call is made on a compact  *)
(* and on a pretty writer alike.                                           *)

\* A call: the method, the type of the value written (for write), the key
\* and the value: the text std::ostream prints for a number or a bool, the
\* bytes of a string or of a raw fragment.
Call(op, type, key, val) == [op |-> op, type |-> type, key |-> key, val |-> val]

\* The values and keys the caller writes.
Keys       == {<<97>>, <<98>>}
BoolVals   == BOOLEAN
IntVals    == {IntVal(FALSE, 0, 0, 1)}
StringVals == {<<44, 34>>}
\* Raw fragments: [1,2] and, laid out over two lines, [ 1 ] as "[\n 1\n]".
RawJsons   == {<<91, 49, 44, 50, 93>>, <<91, 10, 32, 49, 10, 93>>}

\* The call sequence of the example: the object with a = 1, b = [true, false].
ExampleCalls ==
    << Call("openObject", "", <<>>, <<>>),
       Call("pushKey", "", <<97>>, <<>>),
       Call("write", "int", <<>>, <<49>>),
       Call("pushKey", "", <<98>>, <<>>),
       Call("openArray", "", <<>>, <<>>),
       Call("write", "bool", <<>>, TextTrue),
       Call("write", "bool", <<>>, TextFalse),
       Call("closeArray", "", <<>>, <<>>),
       Call("closeObject", "", <<>>, <<>>) >>

IsPrefix(s, t) == Len(s) <= Len(t) /\ s = SubSeq(t, 1, Len(s))

\* No exception is in flight: the session goes on.
Running == \A p \in BOOLEAN : ser[p].exc = ""

\* Every session of at most MaxCalls calls, and the example's to its end.
InBudget(cs) == IF Len(cs) <= MaxCalls THEN TRUE ELSE IsPrefix(cs, ExampleCalls)

CanCall ==
    IF Len(calls) < MaxCalls THEN TRUE
    ELSE IsPrefix(calls, ExampleCalls) /\ calls # ExampleCalls

\* A call can be made: the session goes on and the caller has calls left.
Ready == Running /\ CanCall

Logged(c) == calls' = Append(calls, c) /\ InBudget(calls')

Top == scopes[Len(scopes)]

CanWriteValue ==
    IF scopes = <<>> THEN ~rootDone ELSE Top.kind = "array" \/ Top.keyPending

CanPushKey == scopes # <<>> /\ Top.kind = "object" /\ ~Top.keyPending

CanClose(kind) == scopes # <<>> /\ Top.kind = kind /\ ~Top.keyPending

Scope(kind) == [kind |-> kind, members |-> 0, keyPending |-> FALSE]

\* scopes once the value in progress has been written
ValueDone(sc) ==
    IF sc = <<>> THEN sc
    ELSE [sc EXCEPT ![Len(sc)] = [@ EXCEPT !.members = @ + 1, !.keyPending = FALSE]]

CallWriteBool(b) ==
    /\ Ready /\ CanWriteValue
    /\ ser' = [p \in BOOLEAN |-> WriteBool(ser[p], b)]
    /\ scopes' = ValueDone(scopes)
    /\ rootDone' = TRUE
    /\ Logged(Call("write", "bool", <<>>, IF b THEN TextTrue ELSE TextFalse))
    /\ UNCHANGED <<platform, readerVars, query>>

CallWriteInt(v) ==
    /\ Ready /\ CanWriteValue
    /\ ser' = [p \in BOOLEAN |-> WriteSmallInt(ser[p], v)]
    /\ scopes' = ValueDone(scopes)
    /\ rootDone' = TRUE
    /\ Logged(Call("write", "int", <<>>, DecText(v)))
    /\ UNCHANGED <<platform, readerVars, query>>

CallWriteString(str) ==
    /\ Ready /\ CanWriteValue
    /\ ser' = [p \in BOOLEAN |-> WriteString(ser[p], str)]
    /\ scopes' = ValueDone(scopes)
    /\ rootDone' = TRUE
    /\ Logged(Call("write", "string_view", <<>>, str))
    /\ UNCHANGED <<platform, readerVars, query>>

CallPushKey(k) ==
    /\ Ready /\ CanPushKey
    /\ ser' = [p \in BOOLEAN |-> PushKey(ser[p], k)]
    /\ scopes' = [scopes EXCEPT ![Len(scopes)].keyPending = TRUE]
    /\ Logged(Call("pushKey", "", k, <<>>))
    /\ UNCHANGED <<platform, rootDone, readerVars, query>>

CallWriteRawJson(k, json) ==
    /\ Ready /\ CanPushKey
    /\ ser' = [p \in BOOLEAN |-> WriteRawJson(ser[p], k, json)]
    /\ scopes' = ValueDone(scopes)
    /\ Logged(Call("writeRawJson", "", k, json))
    /\ UNCHANGED <<platform, rootDone, readerVars, query>>

CallOpenObject ==
    /\ Ready /\ CanWriteValue
    /\ ser' = [p \in BOOLEAN |-> OpenObject(ser[p])]
    /\ scopes' = Append(ValueDone(scopes), Scope("object"))
    /\ rootDone' = TRUE
    /\ Logged(Call("openObject", "", <<>>, <<>>))
    /\ UNCHANGED <<platform, readerVars, query>>

CallOpenArray ==
    /\ Ready /\ CanWriteValue
    /\ ser' = [p \in BOOLEAN |-> OpenArray(ser[p])]
    /\ scopes' = Append(ValueDone(scopes), Scope("array"))
    /\ rootDone' = TRUE
    /\ Logged(Call("openArray", "", <<>>, <<>>))
    /\ UNCHANGED <<platform, readerVars, query>>

CallCloseObject ==
    /\ Ready /\ CanClose("object")
    /\ ser' = [p \in BOOLEAN |-> CloseObject(ser[p])]
    /\ scopes' = SubSeq(scopes, 1, Len(scopes) - 1)
    /\ Logged(Call("closeObject", "", <<>>, <<>>))
    /\ UNCHANGED <<platform, rootDone, readerVars, query>>

CallCloseArray ==
    /\ Ready /\ CanClose("array")
    /\ ser' = [p \in BOOLEAN |-> CloseArray(ser[p])]
    /\ scopes' = SubSeq(scopes, 1, Len(scopes) - 1)
    /\ Logged(Call("closeArray", "", <<>>, <<>>))
    /\ UNCHANGED <<platform, rootDone, readerVars, query>>

WriterInit ==
    /\ platform \in Platforms
    /\ ser = [p \in BOOLEAN |-> NewSerializer(p)]
    /\ scopes = <<>>
    /\ rootDone = FALSE
    /\ calls = <<>>

Init == WriterInit /\ ReaderInit /\ query = NoQuery

Next ==
    \/ \E b \in BoolVals : CallWriteBool(b)
    \/ \E v \in IntVals : CallWriteInt(v)
    \/ \E str \in StringVals : CallWriteString(str)
    \/ \E k \in Keys : CallPushKey(k)
    \/ \E k \in Keys, json \in RawJsons : CallWriteRawJson(k, json)
    \/ CallOpenObject
    \/ CallOpenArray
    \/ CallCloseObject
    \/ CallCloseArray

Spec == Init /\ [][Next]_vars

-----------------------------------------------------------------------------
(* Reading the output back: the tokens of a JSON text.                     *)

IsWs(c) == c \in {32, 10, 13, 9}
IsStructural(c) == c \in {123, 125, 91, 93, 44, 58}

\* The index of the quote that closes the string whose content starts at i,
\* 0 if there is none.
RECURSIVE StringEnd(_, _)
StringEnd(out, i) ==
    IF i > Len(out) THEN 0
    ELSE IF out[i] = 34 THEN i
    ELSE IF out[i] = 92 THEN StringEnd(out, i + 2)
    ELSE StringEnd(out, i + 1)

\* The index of the last byte of the literal (number, true, false) at i.
RECURSIVE LitEnd(_, _)
LitEnd(out, i) ==
    IF i + 1 > Len(out) \/ IsWs(out[i + 1]) \/ IsStructural(out[i + 1]) \/ out[i + 1] = 34
    THEN i
    ELSE LitEnd(out, i + 1)

StructuralName(c) ==
    CASE c = 123 -> "{" [] c = 125 -> "}" [] c = 91 -> "[" [] c = 93 -> "]"
      [] c = 44 -> "," [] OTHER -> ":"

RECURSIVE TokensFrom(_, _)
TokensFrom(out, i) ==
    IF i > Len(out) THEN <<>>
    ELSE IF IsWs(out[i]) THEN TokensFrom(out, i + 1)
    ELSE IF out[i] = 34
         THEN LET e == StringEnd(out, i + 1)
              IN  IF e = 0 THEN <<"bad">> ELSE <<"str">> \o TokensFrom(out, e + 1)
    ELSE IF IsStructural(out[i])
         THEN <<StructuralName(out[i])>> \o TokensFrom(out, i + 1)
    ELSE <<"lit">> \o TokensFrom(out, LitEnd(out, i) + 1)

Tokens(out) == TokensFrom(out, 1)

\* The tokens a member can end with, and start with.
MemberEnd   == {"str", "lit", "}", "]"}
MemberStart == {"str", "lit", "{", "["}

\* out with each newline and the spaces that directly follow it deleted.
RECURSIVE StripFrom(_, _, _)
StripFrom(out, i, afterNewline) ==
    IF i > Len(out) THEN <<>>
    ELSE IF out[i] = 10 THEN StripFrom(out, i + 1, TRUE)
    ELSE IF afterNewline /\ out[i] = 32 THEN StripFrom(out, i + 1, TRUE)
    ELSE <<out[i]>> \o StripFrom(out, i + 1, FALSE)

StripLayout(out) == StripFrom(out, 1, FALSE)

Compact == ser[FALSE].m_out
Pretty  == ser[TRUE].m_out

-----------------------------------------------------------------------------
(* Claims about the layout of the output. *)

\* {"a":1,"b":[true,false]}
ExampleText ==
    <<123, 34, 97, 34, 58, 49, 44, 34, 98, 34, 58, 91,
      116, 114, 117, 101, 44, 102, 97, 108, 115, 101, 93, 125>>

\* C2: in compact mode, after every well-formed call sequence, each comma of
\* the output stands between the end of one member and the start of the next
\* member of the same scope (so never after an opening bracket, before a
\* closing bracket, after a colon or after another comma); two members never
\* follow each other without a comma, a closed compound, empty or not,
\* counting as a member; each key stands first in its object or after a
\* comma; and the example's call sequence yields {"a":1,"b":[true,false]}.
C2_CommaPlacement ==
    LET t == Tokens(Compact) IN
    /\ \A i \in 1..Len(t) : t[i] # "bad"
    /\ \A i \in 1..Len(t) :
         t[i] = "," => /\ 1 < i /\ i < Len(t)
                       /\ t[i - 1] \in MemberEnd
                       /\ t[i + 1] \in MemberStart
    /\ \A i \in 1..(Len(t) - 1) : ~(t[i] \in MemberEnd /\ t[i + 1] \in MemberStart)
    /\ \A i \in 1..Len(t) :
         t[i] = ":" => i > 2 /\ t[i - 1] = "str" /\ t[i - 2] \in {"{", ","}
    /\ calls = ExampleCalls => Compact = ExampleText

\* C2's case: the example's calls have all been made.
C2_Witness == calls = ExampleCalls /\ Len(Compact) > 0

\* C9 as stated: the pretty output with each newline and the indent after it
\* deleted is the compact output, after every well-formed call sequence.
C9_StripPrettyIsCompact == StripLayout(Pretty) = Compact

HasNewline(bytes) == \E i \in 1..Len(bytes) : bytes[i] = 10

NoRawNewline ==
    \A i \in 1..Len(calls) :
        calls[i].op = "writeRawJson" => ~HasNewline(calls[i].val)

\* C9, amended: the same, after every well-formed call sequence in which no
\* raw JSON fragment holds a newline.
C9_StripPrettyIsCompactNoRawNewline ==
    NoRawNewline => StripLayout(Pretty) = Compact

\* C9's case: a finished document with nested scopes over several lines.
C9_Witness ==
    /\ NoRawNewline
    /\ scopes = <<>> /\ Len(calls) = MaxCalls
    /\ Len(Pretty) > Len(Compact) + 8

\* What a call appended to the output of the writer with m_pretty = p.
Appended(p) ==
    SubSeq(ser'[p].m_out, Len(ser[p].m_out) + 1, Len(ser'[p].m_out))

\* A line break of the layout: a newline and two spaces per nesting level.
LineBreak(level) == <<10>> \o [i \in 1..(2 * level) |-> 32]

ValueText(c) ==
    CASE c.op = "openObject"         -> <<123>>
      [] c.op = "openArray"          -> <<91>>
      [] c.type = "string_view"      -> EscapedText(c.val)
      [] OTHER                       -> c.val

\* One call in pretty mode, made with Len(scopes) scopes open.
C10_Call ==
    LET c   == calls'[Len(calls')]
        d   == Len(scopes)
        sep == IF scopes # <<>> /\ Top.members > 0 THEN <<44>> ELSE <<>>
        app == Appended(TRUE)
    IN  /\ IsPrefix(Pretty, ser'[TRUE].m_out)
        /\ CASE c.op = "pushKey" ->
                  app = sep \o LineBreak(d) \o EscapedText(c.key) \o <<58>>
             [] c.op = "writeRawJson" ->
                  app = sep \o LineBreak(d) \o EscapedText(c.key) \o <<58>> \o c.val
             [] c.op = "closeObject" ->
                  app = (IF Top.members > 0 THEN LineBreak(d - 1) ELSE <<>>) \o <<125>>
             [] c.op = "closeArray" ->
                  app = (IF Top.members > 0 THEN LineBreak(d - 1) ELSE <<>>) \o <<93>>
             [] OTHER ->
                  IF scopes # <<>> /\ Top.kind = "array"
                  THEN app = sep \o LineBreak(d) \o ValueText(c)
                  ELSE app = ValueText(c)

\* C10: in pretty mode every key and every array element is preceded by a
\* newline and two spaces per nesting level open at that moment; the value of
\* a key follows the colon directly; a closing bracket is preceded by a
\* newline and the indent of the enclosing level exactly when its scope has
\* a member, so that an empty scope is written {} or [].
C10_PrettyLayout == [][C10_Call]_vars

\* C10's case: {"a":[true]} laid out over five lines.
C10_Witness ==
    Pretty = <<123>> \o LineBreak(1) \o <<34, 97, 34, 58, 91>> \o LineBreak(2)
             \o TextTrue \o LineBreak(1) \o <<93>> \o LineBreak(0) \o <<125>>

-----------------------------------------------------------------------------
(* Sessions of number writes: a top-level number, or an array of numbers,  *)
(* of every integer type and of float and double.                          *)

IntTypes   == SmallIntTypes \cup BigIntTypes
FloatTypes == {"float", "double"}

\* 0, -1, the ends of the 32-bit types, 2^32, the values around +-2^53 and
\* the ends of the 64-bit types.
NumIntVals ==
    { IntVal(FALSE, 0, 0, 0),
      IntVal(TRUE, 0, 0, 1),
      IntVal(FALSE, 0, 21, 47483647),
      IntVal(FALSE, 0, 42, 94967295),
      IntVal(FALSE, 0, 42, 94967296),
      IntVal(FALSE, 0, 90071992, 54740991),
      IntVal(FALSE, 0, 90071992, 54740992),
      IntVal(FALSE, 0, 90071992, 54740993),
      IntVal(TRUE, 0, 90071992, 54740992),
      IntVal(TRUE, 0, 90071992, 54740993),
      IntVal(FALSE, 922, 33720368, 54775807),
      IntVal(TRUE, 922, 33720368, 54775808),
      IntVal(FALSE, 1844, 67440737, 9551615) }

\* 0.0, -0.0, 1.5, -2.5e+30, the least subnormal, then +inf, -inf and NaN.
\* The exponent field is named by what it holds.
NumFloatVals ==
    { FloatVal(0, "zero", TRUE, <<48>>),
      FloatVal(1, "zero", TRUE, <<45, 48>>),
      FloatVal(0, "normal", FALSE, <<49, 46, 53>>),
      FloatVal(1, "normal", FALSE, <<45, 50, 46, 53, 101, 43, 51, 48>>),
      FloatVal(0, "zero", FALSE, <<52, 46, 57, 52, 48, 54, 54, 101, 45, 51, 50, 52>>),
      FloatVal(0, ExpAllOnes, TRUE, <<105, 110, 102>>),
      FloatVal(1, ExpAllOnes, TRUE, <<45, 105, 110, 102>>),
      FloatVal(0, ExpAllOnes, FALSE, <<110, 97, 110>>) }

NumReady == Ready /\ Len(calls) < MaxNumCalls

CallWriteInteger(T, v) ==
    /\ NumReady /\ CanWriteValue
    /\ IsValueOf(T, v)
    /\ ser' = [p \in BOOLEAN |-> WriteInteger(ser[p], T, v)]
    /\ scopes' = ValueDone(scopes)
    /\ rootDone' = TRUE
    /\ Logged(Call("write", T, <<>>, DecText(v)))
    /\ UNCHANGED <<platform, readerVars, query>>

CallWriteFloat(T, v) ==
    /\ NumReady /\ CanWriteValue
    /\ ser' = [p \in BOOLEAN |-> WriteFloatValue(ser[p], v)]
    /\ scopes' = ValueDone(scopes)
    /\ rootDone' = TRUE
    /\ Logged(Call("write", T, <<>>, v.text))
    /\ UNCHANGED <<platform, readerVars, query>>

NumOpenArray == NumReady /\ CallOpenArray

NumCloseArray == NumReady /\ CallCloseArray

NumNext ==
    \/ \E T \in IntTypes, v \in NumIntVals : CallWriteInteger(T, v)
    \/ \E T \in FloatTypes, v \in NumFloatVals : CallWriteFloat(T, v)
    \/ NumOpenArray
    \/ NumCloseArray

SpecNum == Init /\ [][NumNext]_vars

-----------------------------------------------------------------------------
(* Claims about number writes. *)

\* The range of integers a double holds exactly: |v| <= 9007199254740992.
InDoubleRange(v) == ~MagLess(IntVal(FALSE, 0, 90071992, 54740992), v)

\* app is some layout (comma, newline, indent) followed by text.
EndsWithText(app, text) ==
    /\ Len(app) >= Len(text)
    /\ SubSeq(app, Len(app) - Len(text) + 1, Len(app)) = text
    /\ \A i \in 1..(Len(app) - Len(text)) : app[i] \in {44, 10, 32}

\* The write of v as type T is the call just made.
JustWrote(T, text) == calls' = Append(calls, Call("write", T, <<>>, text))

\* One write of an integer, on either writer.
C3_Call ==
    \A T \in IntTypes, v \in NumIntVals, p \in BOOLEAN :
        JustWrote(T, DecText(v)) =>
            IF SizeOf(T) > 4 /\ ~InDoubleRange(v)
            THEN /\ ser'[p].exc = "integer too big"
                 /\ ser'[p].m_out = ser[p].m_out
            ELSE /\ ser'[p].exc = ""
                 /\ IsPrefix(ser[p].m_out, ser'[p].m_out)
                 /\ EndsWithText(Appended(p), DecText(v))

\* C3: the write of an integer of a type wider than 32 bits succeeds and
\* emits the value's decimal text exactly when the value lies in
\* [-9007199254740992, 9007199254740992], and otherwise fails with the data
\* error "integer too big" and emits nothing; an integer of 32 bits or fewer
\* is always written.
C3_BigIntegerRange == [][C3_Call]_vars

\* The calls the writer must reject.
IsRejectedCall(c) ==
    /\ c.op = "write"
    /\ \/ /\ c.type \in BigIntTypes /\ SizeOf(c.type) > 4
          /\ \E v \in NumIntVals : c.val = DecText(v) /\ ~InDoubleRange(v)
       \/ /\ c.type \in FloatTypes
          /\ \E v \in NumFloatVals : c.val = v.text /\ v.exp = ExpAllOnes

RejectedBefore == \E i \in 1..Len(calls) : IsRejectedCall(calls[i])

C4_Call ==
    \A p \in BOOLEAN :
        /\ IsRejectedCall(calls'[Len(calls')]) =>
              /\ ser'[p].exc # ""
              /\ ser'[p].m_out = ser[p].m_out
        /\ RejectedBefore => ser'[p].m_out = ser[p].m_out

\* C4: a write the writer rejects with a data error does not return normally
\* (an exception is in flight after it), appends nothing in place of the
\* rejected value, and no later call of the session appends output.
C4_RejectionAborts == [][C4_Call]_vars

IsNumberText(text) ==
    /\ Len(text) > 0
    /\ \A i \in 1..Len(text) : text[i] \in (48..57) \cup {43, 45, 46, 101}

C5_Call ==
    \A T \in FloatTypes, v \in NumFloatVals, p \in BOOLEAN :
        JustWrote(T, v.text) =>
            IF v.exp = ExpAllOnes
            THEN /\ ser'[p].exc = "float not finite"
                 /\ ser'[p].m_out = ser[p].m_out
            ELSE /\ ser'[p].exc = ""
                 /\ IsPrefix(ser[p].m_out, ser'[p].m_out)
                 /\ EndsWithText(Appended(p), v.text)
                 /\ IsNumberText(v.text)

\* C5: the write of a NaN, +infinity or -infinity fails with the data error
\* "float not finite" and emits nothing; the write of 0.0, -0.0 or any other
\* finite value succeeds and emits a number.
C5_FloatFinite == [][C5_Call]_vars

\* What the code does keep of C3 and C5: a rejected value appends nothing,
\* an accepted one appends its text; no write raises an error.
NumberWritesFrame ==
    [][ \A p \in BOOLEAN :
          /\ ser'[p].exc = ""
          /\ IsPrefix(ser[p].m_out, ser'[p].m_out)
          /\ LET c == calls'[Len(calls')] IN
             c.op = "write" =>
                IF IsRejectedCall(c) THEN ser'[p].m_out = ser[p].m_out
                ELSE EndsWithText(Appended(p), c.val) ]_vars

-----------------------------------------------------------------------------
(* Sessions of one string write: write(std::string_view) of every string   *)
(* of at most MaxStrLen bytes over EscAlphabet.                            *)

\* Every control character, then space " / A \ DEL, the bytes of the UTF-8
\* sequences C3 A9 and E2 82 AC, and FF, which no UTF-8 text holds.
EscAlphabet == (0..31) \cup {32, 34, 47, 65, 92, 127, 195, 169, 226, 130, 172, 255}

EscStrings == UNION {[1..n -> EscAlphabet] : n \in 0..MaxStrLen}

EscNext == \E str \in EscStrings : CallWriteString(str)

SpecEsc == Init /\ [][EscNext]_vars

\* The string written by the session's call, once made.
Written == calls[1].val

WroteString == Len(calls) = 1 /\ calls[1].type = "string_view"

-----------------------------------------------------------------------------
(* Standard JSON string decoding (RFC 8259, section 7) of a quoted text.   *)

HexValue(c) ==
    CASE c \in 48..57  -> c - 48
      [] c \in 97..102 -> c - 87
      [] c \in 65..70  -> c - 55
      [] OTHER         -> -1

\* UTF-8 of a code point below 0x10000
Utf8(cp) ==
    IF cp < 128 THEN <<cp>>
    ELSE IF cp < 2048 THEN <<192 + (cp \div 64), 128 + (cp % 64)>>
    ELSE <<224 + (cp \div 4096), 128 + ((cp \div 64) % 64), 128 + (cp % 64)>>

Failed == [ok |-> FALSE, bytes |-> <<>>]

Then(bytes, rest) ==
    IF rest.ok THEN [ok |-> TRUE, bytes |-> bytes \o rest.bytes] ELSE Failed

SimpleEscape(e) ==
    CASE e = 34 -> 34 [] e = 92 -> 92 [] e = 47 -> 47 [] e = 98 -> 8
      [] e = 102 -> 12 [] e = 110 -> 10 [] e = 114 -> 13 [] e = 116 -> 9
      [] OTHER -> -1

\* The bytes of the string content body, decoded from index i on.
RECURSIVE DecodeFrom(_, _)
DecodeFrom(body, i) ==
    IF i > Len(body) THEN [ok |-> TRUE, bytes |-> <<>>]
    ELSE IF body[i] < 32 \/ body[i] = 34 THEN Failed
    ELSE IF body[i] # 92 THEN Then(<<body[i]>>, DecodeFrom(body, i + 1))
    ELSE IF i + 1 > Len(body) THEN Failed
    ELSE IF body[i + 1] = 117
         THEN IF i + 5 > Len(body) \/ \E k \in 2..5 : HexValue(body[i + k]) < 0
              THEN Failed
              ELSE Then(Utf8(4096 * HexValue(body[i + 2]) + 256 * HexValue(body[i + 3])
                             + 16 * HexValue(body[i + 4]) + HexValue(body[i + 5])),
                        DecodeFrom(body, i + 6))
    ELSE IF SimpleEscape(body[i + 1]) < 0 THEN Failed
    ELSE Then(<<SimpleEscape(body[i + 1])>>, DecodeFrom(body, i + 2))

JsonUnescape(text) ==
    IF Len(text) < 2 \/ text[1] # 34 \/ text[Len(text)] # 34 THEN Failed
    ELSE DecodeFrom(SubSeq(text, 2, Len(text) - 1), 1)

IsContinuation(b) == b \in 128..191

RECURSIVE ValidUtf8From(_, _)
ValidUtf8From(s, i) ==
    IF i > Len(s) THEN TRUE
    ELSE IF s[i] < 128 THEN ValidUtf8From(s, i + 1)
    ELSE IF s[i] \in 194..223
         THEN i + 1 <= Len(s) /\ IsContinuation(s[i + 1]) /\ ValidUtf8From(s, i + 2)
    ELSE IF s[i] \in 224..239
         THEN /\ i + 2 <= Len(s)
              /\ IsContinuation(s[i + 1]) /\ IsContinuation(s[i + 2])
              /\ (s[i] = 224 => s[i + 1] >= 160)
              /\ (s[i] = 237 => s[i + 1] < 160)
              /\ ValidUtf8From(s, i + 3)
    ELSE FALSE

IsValidUtf8(s) == ValidUtf8From(s, 1)

-----------------------------------------------------------------------------
(* Claims about string encoding. *)

HexDigit(n) == IF n < 10 THEN 48 + n ELSE 87 + n

\* The escape of a control character: \n \r \b \t \f, else \u00XX.
ControlEscape(c) ==
    CASE c = 10 -> <<92, 110>>
      [] c = 13 -> <<92, 114>>
      [] c = 8  -> <<92, 98>>
      [] c = 9  -> <<92, 116>>
      [] c = 12 -> <<92, 102>>
      [] OTHER  -> <<92, 117, 48, 48, HexDigit(c \div 16), HexDigit(c % 16)>>

RECURSIVE ControlEscapes(_)
ControlEscapes(s) ==
    IF s = <<>> THEN <<>> ELSE ControlEscape(Head(s)) \o ControlEscapes(Tail(s))

IsControl(c) == c < 32

AllControl(s) == \A i \in 1..Len(s) : IsControl(s[i])

\* C6: a string of control characters is written as the quoted sequence of
\* their escapes, \n \r \b \t \f or \u00XX, and no output of a string write
\* holds a raw control byte.
C6_ControlEscapes ==
    WroteString =>
        /\ AllControl(Written) =>
              Compact = <<34>> \o ControlEscapes(Written) \o <<34>>
        /\ ~\E i \in 1..Len(Compact) : IsControl(Compact[i])

IsPlain(c) == c >= 32 /\ c # 34 /\ c # 92

AllPlain(s) == \A i \in 1..Len(s) : IsPlain(s[i])

\* C7: a string of bytes of value 0x20 or more other than the double quote
\* and the backslash, the bytes 0x80..0xFF included, is written as itself
\* between quotes.
C7_PassThrough ==
    WroteString /\ AllPlain(Written) =>
        Compact = <<34>> \o Written \o <<34>>

\* C8: what write(string_view s) emits for a valid UTF-8 string s decodes,
\* as a JSON string, to s.
C8_TextRoundTrip ==
    WroteString /\ IsValidUtf8(Written) =>
        JsonUnescape(Compact) = [ok |-> TRUE, bytes |-> Written]

\* What the code does keep of C6, C7 and C8: strings of the characters with
\* a short escape and of ASCII characters from 0x20 on are written as the
\* claims say and decode to themselves.
IsWellEscaped(c) == c \in {8, 9, 10, 12, 13} \/ (c >= 32 /\ c < 128)

AllWellEscaped(s) == \A i \in 1..Len(s) : IsWellEscaped(s[i])

AsciiStringsRoundTrip ==
    WroteString /\ AllWellEscaped(Written) =>
        /\ JsonUnescape(Compact) = [ok |-> TRUE, bytes |-> Written]
        /\ AllControl(Written) =>
              Compact = <<34>> \o ControlEscapes(Written) \o <<34>>
        /\ AllPlain(Written) => Compact = <<34>> \o Written \o <<34>>

\* On a build whose char is unsigned the bytes 0x80..0xFF pass through.
UnsignedCharPassThrough ==
    ~platform.charSigned => C7_PassThrough

-----------------------------------------------------------------------------
(* The caller of the reader. *)

IsAlive(r, n) == r.nodes[n].state = "alive"

\* The name of the next node constructed.
NextNode(r) == CHOOSE c \in NodeIds : r.nodes[c].state = "unborn"
                     /\ \A b \in NodeIds : b < c => r.nodes[b].state # "unborn"

CanConstruct == ~rd.asserted /\ \E c \in NodeIds : rd.nodes[c].state = "unborn"

\* The caller starts a call, its variable v holding old.
Begin(r, old) == [r EXCEPT !.trace = <<>>, !.bret = NoReturn, !.ret = NoResult,
                           !.v = old]

\* The caller starts a call where the document has a compound of that kind
\* (an empty one) at the current position.
Positioned(r, kind) ==
    [Begin(r, Empty) EXCEPT !.pending = Value(kind, <<>>, <<>>, 0)]

\* The caller opens an object on node n: n.obj().
CallObj(n) ==
    /\ CanConstruct /\ IsAlive(rd, n)
    /\ rd' = NodeObj(Positioned(rd, "object"), n, NextNode(rd))
    /\ rlast' = [op |-> "open", node |-> n]
    /\ UNCHANGED <<writerVars, rret, query>>

\* The caller opens an array on node n: n.ar().
CallAr(n) ==
    /\ CanConstruct /\ IsAlive(rd, n)
    /\ rd' = NodeAr(Positioned(rd, "array"), n, NextNode(rd))
    /\ rlast' = [op |-> "open", node |-> n]
    /\ UNCHANGED <<writerVars, rret, query>>

\* The object or array n goes out of scope or is otherwise destroyed.
CallDestroy(n) ==
    /\ ~rd.asserted /\ IsAlive(rd, n) /\ n # Root
    /\ rd' = IF rd.nodes[n].kind = "object"
             THEN DeserializerObjectDtor(Begin(rd, Empty), n)
             ELSE DeserializerArrayDtor(Begin(rd, Empty), n)
    /\ rlast' = [op |-> "close", node |-> n]
    /\ UNCHANGED <<writerVars, rret, query>>

ScopeNext ==
    \/ \E n \in NodeIds : CallObj(n)
    \/ \E n \in NodeIds : CallAr(n)
    \/ \E n \in NodeIds : CallDestroy(n)

SpecScope == Init /\ [][ScopeNext]_vars

-----------------------------------------------------------------------------
(* Claims about scopes. *)

OpenChildren(r, n) == {m \in NodeIds : IsAlive(r, m) /\ r.nodes[m].m_parent = n}

\* The open scopes of r: its live objects and arrays.
OpenScopes(r) == {m \in NodeIds : IsAlive(r, m) /\ m # Root}

\* n is the innermost open scope: it is open (or the root, when no scope is
\* open), none of its children is, and every open scope is n or an ancestor.
RECURSIVE IsAncestorOrSelf(_, _, _)
IsAncestorOrSelf(r, a, n) ==
    IF n = NullNode THEN FALSE
    ELSE IF a = n THEN TRUE
    ELSE IsAncestorOrSelf(r, a, r.nodes[n].m_parent)

IsInnermost(r, n) ==
    /\ IsAlive(r, n)
    /\ OpenChildren(r, n) = {}
    /\ \A m \in OpenScopes(r) : IsAncestorOrSelf(r, m, n)

\* One open or close on a node of a reader whose scopes nest.
C1_Call ==
    LET n == rlast'.node IN
    /\ rlast'.op = "open" =>
          IF IsInnermost(rd, n)
          THEN /\ ~rd'.asserted
               /\ \E c \in NodeIds :
                     /\ ~IsAlive(rd, c) /\ IsInnermost(rd', c)
                     /\ rd'.nodes[c].m_parent = n
                     /\ OpenScopes(rd') = OpenScopes(rd) \cup {c}
          ELSE rd'.asserted /\ OpenScopes(rd') = OpenScopes(rd)
    /\ rlast'.op = "close" =>
          IF IsInnermost(rd, n)
          THEN /\ ~rd'.asserted
               /\ OpenScopes(rd') = OpenScopes(rd) \ {n}
               /\ IsInnermost(rd', rd.nodes[n].m_parent)
          ELSE rd'.asserted /\ OpenScopes(rd') = OpenScopes(rd)

\* C1: scopes are opened and closed last in, first out.  An open on a node
\* that is not the innermost open scope (one of its children, or a scope
\* below it, is still open) fails as a programming error and opens nothing;
\* a close of a scope that is not the innermost fails likewise and closes
\* nothing; an open on the innermost scope makes the new scope innermost,
\* and a close of the innermost scope makes its parent innermost again.
C1_ScopesAreLifo == [][C1_Call]_vars

\* C1's case: scopes were nested two deep and the inner one has been closed,
\* leaving its parent innermost.
C1_Witness ==
    /\ ~rd.asserted
    /\ rlast.op = "close"
    /\ \E n \in OpenScopes(rd) : IsInnermost(rd, n) /\ rd.nodes[n].m_parent # Root

-----------------------------------------------------------------------------
(* A caller of the writer that opens and closes scopes in any order, also  *)
(* with none open, and destroys the writer at any time.  scopes is the     *)
(* kinds of the scopes opened and not yet closed.                          *)

LastCall == IF calls = <<>> THEN Call("", "", <<>>, <<>>) ELSE calls[Len(calls)]

\* The writers exist and work: none destroyed, no assert failed.
DepthReady ==
    /\ Len(calls) < MaxCalls
    /\ LastCall.op # "destroy"
    /\ \A p \in BOOLEAN : ~ser[p].asserted

DepthOpenObject ==
    /\ DepthReady
    /\ ser' = [p \in BOOLEAN |-> OpenObject(ser[p])]
    /\ scopes' = Append(scopes, Scope("object"))
    /\ calls' = Append(calls, Call("openObject", "", <<>>, <<>>))
    /\ UNCHANGED <<platform, rootDone, readerVars, query>>

DepthOpenArray ==
    /\ DepthReady
    /\ ser' = [p \in BOOLEAN |-> OpenArray(ser[p])]
    /\ scopes' = Append(scopes, Scope("array"))
    /\ calls' = Append(calls, Call("openArray", "", <<>>, <<>>))
    /\ UNCHANGED <<platform, rootDone, readerVars, query>>

DepthCloseObject ==
    /\ DepthReady
    /\ ser' = [p \in BOOLEAN |-> CloseObject(ser[p])]
    /\ scopes' = IF scopes = <<>> THEN scopes ELSE Front(scopes)
    /\ calls' = Append(calls, Call("closeObject", "", <<>>, <<>>))
    /\ UNCHANGED <<platform, rootDone, readerVars, query>>

DepthCloseArray ==
    /\ DepthReady
    /\ ser' = [p \in BOOLEAN |-> CloseArray(ser[p])]
    /\ scopes' = IF scopes = <<>> THEN scopes ELSE Front(scopes)
    /\ calls' = Append(calls, Call("closeArray", "", <<>>, <<>>))
    /\ UNCHANGED <<platform, rootDone, readerVars, query>>

DepthDestroy ==
    /\ DepthReady
    /\ ser' = [p \in BOOLEAN |-> SerializerDtor(ser[p])]
    /\ calls' = Append(calls, Call("destroy", "", <<>>, <<>>))
    /\ UNCHANGED <<platform, scopes, rootDone, readerVars, query>>

DepthNext ==
    \/ DepthOpenObject
    \/ DepthOpenArray
    \/ DepthCloseObject
    \/ DepthCloseArray
    \/ DepthDestroy

SpecDepth == Init /\ [][DepthNext]_vars

\* One call of such a session, on the writer of either mode.
C16_Call ==
    \A p \in BOOLEAN :
        LET op == calls'[Len(calls')].op IN
        /\ op \in {"openObject", "openArray"} =>
              ~ser'[p].asserted /\ ser'[p].m_depth = Len(scopes) + 1
        /\ op \in {"closeObject", "closeArray"} =>
              IF scopes = <<>>
              THEN ser'[p].asserted /\ ser'[p].m_out = ser[p].m_out
              ELSE /\ ~ser'[p].asserted
                   /\ ser'[p].m_depth = Len(scopes) - 1
                   /\ ser'[p].m_out # ser[p].m_out
        /\ op = "destroy" => (ser'[p].asserted <=> scopes # <<>>)
        /\ ~ser'[p].asserted => ser'[p].m_depth = Len(scopes')

\* C16: the writer's depth bookkeeping.  After every sequence of open and
\* close calls m_depth is the number of scopes opened and not yet closed.  A
\* close with no scope open fails an assertion and emits no bracket;
\* destroying the writer fails an assertion exactly when m_depth is not 0.
C16_DepthBookkeeping == [][C16_Call]_vars

\* C16's case: scopes were opened and closed, and then a close came with no
\* scope open and failed its assertion.
C16_Witness ==
    /\ Len(calls) >= 3
    /\ LastCall.op \in {"closeObject", "closeArray"}
    /\ scopes = <<>>
    /\ \A p \in BOOLEAN : ser[p].asserted /\ ser[p].m_depth = 0

-----------------------------------------------------------------------------
(* Claims about raw fragments and about m_hasValue, over the well-formed   *)
(* sessions of Spec.                                                       *)

\* One call, seen from the writer of either mode: what a writeRawJson
\* appends and leaves behind, and the comma of the key that follows one.
C18_Call ==
    \A p \in BOOLEAN :
        LET c   == calls'[Len(calls')]
            sep == IF Top.members > 0 THEN ChComma ELSE <<>>
            brk == IF p THEN ChNewline \o Indent(Len(scopes)) ELSE <<>>
        IN  /\ c.op = "writeRawJson" =>
                  /\ Appended(p) = sep \o brk \o ChQuote \o c.key \o ChQuote
                                       \o ChColon \o c.val
                  /\ ser'[p].m_hasValue
                  /\ ser'[p].m_depth = ser[p].m_depth
                  /\ ser'[p].m_depth = Len(scopes)
                  /\ Top'.members = Top.members + 1
            /\ (LastCall.op = "writeRawJson" /\ c.op \in {"pushKey", "writeRawJson"}) =>
                  SubSeq(Appended(p), 1, 1) = ChComma

\* C18: writeRawJson(key, json) in an open object appends a comma exactly
\* when the object already has a member, then (pretty mode only) a newline
\* and the indent, the quoted key, a colon and the bytes of json unchanged;
\* the object has a member afterwards, so that the next key in it is
\* preceded by a comma; m_depth is unchanged.
C18_RawJsonFrame == [][C18_Call]_vars

\* C18's case: two raw fragments in a row in an object inside an object.
C18_Witness ==
    /\ Len(scopes) >= 2
    /\ LastCall.op = "writeRawJson"
    /\ calls[Len(calls) - 1].op = "writeRawJson"
    /\ LastCall.val # calls[Len(calls) - 1].val

\* The reference model: one has-value flag per open scope, innermost last,
\* below them the flag of the top level.  A call pushes a false flag (open),
\* pops one and sets the flag below it (close), clears the innermost flag
\* (a key) or sets it (a value, a raw fragment with its key).
RefStep(flags, c) ==
    LET n == Len(flags)
    IN  CASE c.op \in {"openObject", "openArray"}   -> Append(flags, FALSE)
          [] c.op \in {"closeObject", "closeArray"} ->
                 [Front(flags) EXCEPT ![n - 1] = TRUE]
          [] c.op = "pushKey"                       -> [flags EXCEPT ![n] = FALSE]
          [] OTHER                                  -> [flags EXCEPT ![n] = TRUE]

RECURSIVE RefFlags(_)
RefFlags(cs) ==
    IF cs = <<>> THEN <<FALSE>>
    ELSE RefStep(RefFlags(Front(cs)), cs[Len(cs)])

\* C19: after each call of a well-formed session, m_hasValue is the flag the
\* reference model keeps for the innermost open scope: the model keeps one
\* flag per open scope, false when the scope is opened, true once a value is
\* written in it, false from a key until its value is written, and true in
\* the parent once the scope is closed.
C19_HasValueRefinesScopeFlags ==
    scopes # <<>> =>
        /\ Len(RefFlags(calls)) = Len(scopes) + 1
        /\ \A p \in BOOLEAN :
              ser[p].m_hasValue = RefFlags(calls)[Len(scopes) + 1]

\* C19's case: a scope was closed inside another whose key was pending, and
\* the parent's flag, false since the key, is true again.
C19_Witness ==
    /\ Len(calls) >= 4
    /\ scopes # <<>>
    /\ LastCall.op \in {"closeObject", "closeArray"}
    /\ calls[Len(calls) - 2].op = "pushKey"
    /\ \A p \in BOOLEAN : ser[p].m_hasValue

-----------------------------------------------------------------------------
(* Queries of a type hint: Type(t).is(mask), for every value of the enum   *)
(* as t and every combination of its bits as mask.                         *)

BaseTags == {True, False, Integer, Float, String, Object, Array, Null}
TypeTags == BaseTags \cup {Boolean, Number}
Masks    == 0..(2 * Null - 1)

TypeQueries == [of : {"is"}, t : TypeTags, mask : Masks, answer : {"?"}]

TypeInit == WriterInit /\ ReaderInit /\ query \in TypeQueries

\* The caller evaluates Type(t).is(mask).
CallIs ==
    /\ query.of = "is" /\ query.answer = "?"
    /\ query' = [query EXCEPT !.answer =
                    IF TypeIs(query.t, query.mask) THEN "true" ELSE "false"]
    /\ UNCHANGED <<writerVars, readerVars>>

SpecType == TypeInit /\ [][CallIs]_vars

\* The base tags whose bit is set in x.
TagsOf(x) == {b \in BaseTags : (x \div b) % 2 = 1}

Answered == query.answer # "?"
Is == query.answer = "true"

\* C17: Type(t).is(mask) is true exactly when t and mask share a set bit.
\* So each of the eight base tags matches itself and no other base tag,
\* Boolean matches exactly True and False, and Number matches exactly Integer
\* and Float.
C17_TypeIs ==
    Answered =>
        /\ Is <=> TagsOf(query.t) \cap TagsOf(query.mask) # {}
        /\ (query.t \in BaseTags /\ query.mask \in BaseTags) =>
              (Is <=> query.t = query.mask)
        /\ (query.t \in BaseTags /\ query.mask = Boolean) =>
              (Is <=> query.t \in {True, False})
        /\ (query.t \in BaseTags /\ query.mask = Number) =>
              (Is <=> query.t \in {Integer, Float})

\* C17's case: False has been asked whether it is a Boolean, and is one.
C17_Witness == Answered /\ query.t = False /\ query.mask = Boolean /\ Is

-----------------------------------------------------------------------------
(* Capability dispatch: val(T&) and flatval(T&) instantiated for every     *)
(* type T, told apart by what the detection traits see of it.              *)

DispatchQueries == [of : {"val", "flatval"}, t : Types, mask : {0}, answer : {"?"}]

DispatchInit == WriterInit /\ ReaderInit /\ query \in DispatchQueries

\* DeserializerNode::val<T> is instantiated.
InstantiateVal ==
    /\ query.of = "val" /\ query.answer = "?"
    /\ query' = [query EXCEPT !.answer = ValStrategy(query.t)]
    /\ UNCHANGED <<writerVars, readerVars>>

\* DeserializerObject::flatval<T> is instantiated.
InstantiateFlatval ==
    /\ query.of = "flatval" /\ query.answer = "?"
    /\ query' = [query EXCEPT !.answer = FlatvalStrategy(query.t)]
    /\ UNCHANGED <<writerVars, readerVars>>

DispatchNext == InstantiateVal \/ InstantiateFlatval

SpecDispatch == DispatchInit /\ [][DispatchNext]_vars

\* T has the hook: a member or a free function of that name that can be
\* called as the hook is called.
Exists(hook) == hook # "none"

\* C14: val(T&) selects exactly one strategy by fixed priority, for every
\* combination of capabilities of T: T's own huseDeserialize method if it
\* exists; otherwise a free huseDeserialize function if it exists; otherwise
\* the backend's primitive read if it has one for T; otherwise the build is
\* rejected.
C14_ValDispatch ==
    (query.of = "val" /\ Answered) =>
        query.answer =
            IF Exists(query.t.method) THEN "method"
            ELSE IF Exists(query.t.func) THEN "function"
            ELSE IF query.t.read THEN "read"
            ELSE "build rejected"

\* The hooks of T that exist return void.
VoidHooks(T) ==
    \A h \in {T.method, T.func, T.flatMethod, T.flatFunc} : h # "other"

\* For types whose hooks return void, val(T&) selects as C14 says, and its
\* choice does not depend on the flat hooks.
ValDispatchOfVoidHooks ==
    (query.of = "val" /\ Answered /\ VoidHooks(query.t)) =>
        query.answer =
            IF Exists(query.t.method) THEN "method"
            ELSE IF Exists(query.t.func) THEN "function"
            ELSE IF query.t.read THEN "read"
            ELSE "build rejected"

\* C15: flatval(T&) uses T's huseDeserializeFlat method if it exists,
\* otherwise a free huseDeserializeFlat function, otherwise the build is
\* rejected; the choice is the same whatever huseDeserialize hooks and
\* backend read T has, and is never one of them.
C15_FlatDispatch ==
    (query.of = "flatval" /\ Answered) =>
        /\ query.answer =
              IF Exists(query.t.flatMethod) THEN "flat method"
              ELSE IF Exists(query.t.flatFunc) THEN "flat function"
              ELSE "build rejected"
        /\ \A U \in Types :
              (U.flatMethod = query.t.flatMethod /\ U.flatFunc = query.t.flatFunc)
                  => FlatvalStrategy(U) = query.answer
        /\ query.answer \notin {"method", "function", "read"}

\* For types whose hooks return void, flatval(T&) selects as C15 says.
FlatDispatchOfVoidHooks ==
    (query.of = "flatval" /\ Answered /\ VoidHooks(query.t)) =>
        /\ query.answer =
              IF Exists(query.t.flatMethod) THEN "flat method"
              ELSE IF Exists(query.t.flatFunc) THEN "flat function"
              ELSE "build rejected"
        /\ \A U \in Types :
              (U.flatMethod = query.t.flatMethod /\ U.flatFunc = query.t.flatFunc)
                  => FlatvalStrategy(U) = query.answer
        /\ query.answer \notin {"method", "function", "read"}

-----------------------------------------------------------------------------
(* The caller of the reader on a document.  Its nodes are automatic        *)
(* objects of nested blocks: it calls the innermost open node, a compound  *)
(* goes out of scope innermost first, and an exception destroys the open   *)
(* compounds, innermost first, on its way out.                             *)

\* The documents read: an object with a number and an object, whose key b
\* has an array of a number and a string; an array with an empty object and
\* a number.
DocObject ==
    ObjectValue(<<"a", "b">>,
                << IntValue(1),
                   ObjectValue(<<"b">>, <<ArrayValue(<<IntValue(2), StringValue>>)>>) >>)
DocArray == ArrayValue(<< ObjectValue(<<>>, <<>>), IntValue(1) >>)
Docs     == {DocObject, DocArray}

\* The keys and indices the caller asks for, and what its v holds before.
AskedKeys    == {"a", "b", "z"}
AskedIndices == {0, 1, 2}
OldValues    == {Empty, Holding(9)}

\* The backend on a document: the current position is the document's root.
BackendOn(doc) == [NewReader EXCEPT !.pending = doc]

\* The reader is the same on every build: one build is followed.
ReadInit ==
    /\ WriterInit /\ platform.charSigned /\ platform.longBytes = 8
    /\ rd \in {BackendOn(doc) : doc \in Docs}
    /\ rlast = [op |-> "", node |-> NullNode]
    /\ rret = NoCall
    /\ query = NoQuery

\* The innermost open node: the node the caller calls.
Cur(r) == CHOOSE n \in NodeIds : IsInnermost(r, n)

Kind(r, n) == r.nodes[n].kind

\* The session goes on: no assertion has failed, no exception is in flight.
ReadReady == ~rd.asserted /\ ~Threw(rd)

\* The caller has a call of obj() or ar() left.
CanOpen ==
    /\ ReadReady
    /\ Cardinality({n \in NodeIds : rd.nodes[n].state # "unborn"}) <= MaxOpens

\* The caller's record of the call it makes.
Note(op, key, index, old) ==
    [rret EXCEPT !.op = op, !.key = key, !.index = index, !.old = old]

\* n.obj(), on the root, on an array, or on the node an object has returned
ReadObj ==
    /\ CanOpen
    /\ rd' = NodeObj(Begin(rd, Empty), Cur(rd), NextNode(rd))
    /\ rlast' = [op |-> "obj", node |-> Cur(rd)]
    /\ rret' = Note("obj", "", 0, Empty)
    /\ UNCHANGED <<writerVars, query>>

\* n.ar()
ReadAr ==
    /\ CanOpen
    /\ rd' = NodeAr(Begin(rd, Empty), Cur(rd), NextNode(rd))
    /\ rlast' = [op |-> "ar", node |-> Cur(rd)]
    /\ rret' = Note("ar", "", 0, Empty)
    /\ UNCHANGED <<writerVars, query>>

\* o.key(k)
ReadKey(k) ==
    /\ ReadReady /\ Kind(rd, Cur(rd)) = "object"
    /\ rd' = ObjectKey(Begin(rd, Empty), Cur(rd), k)
    /\ rlast' = [op |-> "key", node |-> Cur(rd)]
    /\ rret' = Note("key", k, 0, Empty)
    /\ UNCHANGED <<writerVars, query>>

\* o.optkey(k)
ReadOptKey(k) ==
    /\ ReadReady /\ Kind(rd, Cur(rd)) = "object"
    /\ rd' = ObjectOptKey(Begin(rd, Empty), Cur(rd), k)
    /\ rlast' = [op |-> "optkey", node |-> Cur(rd)]
    /\ rret' = Note("optkey", k, 0, Empty)
    /\ UNCHANGED <<writerVars, query>>

\* o.nextkey(); the caller notes the key it gets
ReadNextKey ==
    /\ ReadReady /\ Kind(rd, Cur(rd)) = "object"
    /\ rd' = ObjectNextKey(Begin(rd, Empty), Cur(rd))
    /\ rlast' = [op |-> "nextkey", node |-> Cur(rd)]
    /\ rret' = [Note("nextkey", "", 0, Empty) EXCEPT !.seen[Cur(rd)] =
                   IF rd'.ret.node # NullNode THEN Append(@, rd'.ret.name) ELSE @]
    /\ UNCHANGED <<writerVars, query>>

\* o.obj(k)
ReadObjAt(k) ==
    /\ CanOpen /\ Kind(rd, Cur(rd)) = "object"
    /\ rd' = ObjectObj(Begin(rd, Empty), Cur(rd), k, NextNode(rd))
    /\ rlast' = [op |-> "obj(k)", node |-> Cur(rd)]
    /\ rret' = Note("obj(k)", k, 0, Empty)
    /\ UNCHANGED <<writerVars, query>>

\* o.ar(k)
ReadArAt(k) ==
    /\ CanOpen /\ Kind(rd, Cur(rd)) = "object"
    /\ rd' = ObjectAr(Begin(rd, Empty), Cur(rd), k, NextNode(rd))
    /\ rlast' = [op |-> "ar(k)", node |-> Cur(rd)]
    /\ rret' = Note("ar(k)", k, 0, Empty)
    /\ UNCHANGED <<writerVars, query>>

\* o.val(k, v), v an int
ReadValAt(k) ==
    /\ ReadReady /\ Kind(rd, Cur(rd)) = "object"
    /\ rd' = ObjectVal(Begin(rd, Holding(9)), Cur(rd), k)
    /\ rlast' = [op |-> "val(k)", node |-> Cur(rd)]
    /\ rret' = Note("val(k)", k, 0, Holding(9))
    /\ UNCHANGED <<writerVars, query>>

\* o.val(k, v), v a std::optional<int> that is empty or holds a number
ReadValOptional(k, old) ==
    /\ ReadReady /\ Kind(rd, Cur(rd)) = "object"
    /\ rd' = ObjectValOptional(Begin(rd, old), Cur(rd), k)
    /\ rlast' = [op |-> "val(k, optional)", node |-> Cur(rd)]
    /\ rret' = Note("val(k, optional)", k, 0, old)
    /\ UNCHANGED <<writerVars, query>>

\* o.optval(k, v), v an int
ReadOptVal(k) ==
    /\ ReadReady /\ Kind(rd, Cur(rd)) = "object"
    /\ rd' = ObjectOptVal(Begin(rd, Holding(9)), Cur(rd), k)
    /\ rlast' = [op |-> "optval", node |-> Cur(rd)]
    /\ rret' = Note("optval", k, 0, Holding(9))
    /\ UNCHANGED <<writerVars, query>>

\* a.index(i)
ReadIndex(i) ==
    /\ ReadReady /\ Kind(rd, Cur(rd)) = "array"
    /\ rd' = ArrayIndex(Begin(rd, Empty), Cur(rd), i)
    /\ rlast' = [op |-> "index", node |-> Cur(rd)]
    /\ rret' = Note("index", "", i, Empty)
    /\ UNCHANGED <<writerVars, query>>

\* n.val(v), v an int
ReadVal ==
    /\ ReadReady
    /\ rd' = NodeVal(Begin(rd, Holding(9)), Cur(rd))
    /\ rlast' = [op |-> "val", node |-> Cur(rd)]
    /\ rret' = Note("val", "", 0, Holding(9))
    /\ UNCHANGED <<writerVars, query>>

\* The destructor of compound n.
Destroyed(r, n) ==
    IF Kind(r, n) = "object" THEN DeserializerObjectDtor(r, n)
    ELSE DeserializerArrayDtor(r, n)

\* The innermost compound goes out of scope.
ReadLeave ==
    /\ ReadReady /\ Cur(rd) # Root
    /\ rd' = Destroyed(Begin(rd, Empty), Cur(rd))
    /\ rlast' = [op |-> "leave", node |-> Cur(rd)]
    /\ rret' = Note("leave", "", 0, Empty)
    /\ UNCHANGED <<writerVars, query>>

\* The exception in flight leaves the block of the innermost compound.
ReadUnwind ==
    /\ ~rd.asserted /\ Threw(rd) /\ Cur(rd) # Root
    /\ rd' = Destroyed(Begin(rd, rd.v), Cur(rd))
    /\ rlast' = [op |-> "unwind", node |-> Cur(rd)]
    /\ rret' = Note("unwind", "", 0, rd.v)
    /\ UNCHANGED <<writerVars, query>>

ReadNext ==
    \/ ReadObj
    \/ ReadAr
    \/ \E k \in AskedKeys : ReadKey(k)
    \/ \E k \in AskedKeys : ReadOptKey(k)
    \/ ReadNextKey
    \/ \E k \in AskedKeys : ReadObjAt(k)
    \/ \E k \in AskedKeys : ReadArAt(k)
    \/ \E k \in AskedKeys : ReadValAt(k)
    \/ \E k \in AskedKeys, old \in OldValues : ReadValOptional(k, old)
    \/ \E k \in AskedKeys : ReadOptVal(k)
    \/ \E i \in AskedIndices : ReadIndex(i)
    \/ ReadVal
    \/ ReadLeave
    \/ ReadUnwind

SpecRead == ReadInit /\ [][ReadNext]_vars

-----------------------------------------------------------------------------
(* Claims about reads of a document.  A call is made on rlast'.node, the   *)
(* innermost open node, whose compound of the document is the one the      *)
(* backend is in before the call.                                          *)

HasKey(o, k) == \E i \in 1..Len(o.keys) : o.keys[i] = k

ValueAt(o, k) == o.vals[CHOOSE i \in 1..Len(o.keys) : o.keys[i] = k]

\* The backend has received that call during the caller's last call.
Issued(r, call) == \E i \in 1..Len(r.trace) : r.trace[i] = call

TimesIssued(r, call) == Cardinality({i \in 1..Len(r.trace) : r.trace[i] = call})

\* One call that looks a key up in the open object.
C11_Call ==
    LET op == rlast'.op
        n  == rlast'.node
        k  == rret'.key
        o  == CurrentCompound(rd)
    IN  op \in {"key", "optkey", "val(k)", "obj(k)", "ar(k)"} =>
            IF ~HasKey(o, k)
            THEN IF op = "optkey"
                 THEN /\ ~Threw(rd')
                      /\ rd'.ret.node = NullNode
                      /\ ~Issued(rd', "read")
                 ELSE /\ Threw(rd')
                      /\ ~Issued(rd', "read")
                      /\ ~Issued(rd', "loadObject") /\ ~Issued(rd', "loadArray")
                      /\ OpenScopes(rd') = OpenScopes(rd)
                      /\ rd'.v = rret'.old
            ELSE op \in {"key", "optkey"} =>
                      /\ ~Threw(rd')
                      /\ rd'.ret.node = n
                      /\ rd'.pending = ValueAt(o, k)

\* C11: on an open object whose document object lacks key k, key(k), and
\* val(k, v), obj(k) and ar(k), which are built on it, fail with a data error
\* and read nothing, while optkey(k) returns null and does not fail; when k
\* is present, key(k) and optkey(k) both leave the reader on k's value and
\* return the object's node.
C11_RequiredAndOptionalKey == [][C11_Call]_vars

\* C11's case: a key of the outer object has been looked up with key() in
\* the inner object, which lacks it, and the data error is in flight.
C11_Witness ==
    /\ rlast.op = "key" /\ rret.key = "a"
    /\ Len(rd.frames) = 2
    /\ HasKey(rd.frames[1].val, "a") /\ ~HasKey(rd.frames[2].val, "a")
    /\ Threw(rd)

\* One nextkey() on an open object, of whose keys the caller has got seen.
C12_Call ==
    LET n    == rlast'.node
        keys == CurrentCompound(rd).keys
        seen == rret.seen[n]
    IN  rlast'.op = "nextkey" =>
            /\ ~Threw(rd')
            /\ IF Len(seen) < Len(keys)
               THEN /\ rd'.ret.node = n /\ rd'.ret.node # NullNode
                    /\ rd'.ret.name = keys[Len(seen) + 1]
                    /\ rret'.seen[n] = Append(seen, keys[Len(seen) + 1])
                    /\ \A i \in 1..Len(seen) : seen[i] # rd'.ret.name
               ELSE /\ rd'.ret = NoResult
                    /\ rret'.seen[n] = seen

\* C12: forward key enumeration.  On an open object with n keys the first n
\* calls of nextkey() return the keys in document order, each once and each
\* with the object's node; every later call returns the empty KeyQuery; no
\* call returns a key that was returned before.
C12_ForwardEnumeration == [][C12_Call]_vars

\* C12's case: nextkey() has returned both keys of the object, the inner
\* object was read in between, and a further call has returned nothing.
C12_Witness ==
    /\ rlast.op = "nextkey"
    /\ rd.ret = NoResult
    /\ rret.seen[rlast.node] = <<"a", "b">>
    /\ \E m \in NodeIds : rd.nodes[m].state = "dead" /\ rret.seen[m] = <<"b">>

\* The kinds of the open compounds from the outermost to node n.
RECURSIVE ChainKinds(_, _)
ChainKinds(r, n) ==
    IF n = Root \/ n = NullNode THEN <<>>
    ELSE Append(ChainKinds(r, r.nodes[n].m_parent), Kind(r, n))

\* One call of a session, as the backend's nesting sees it.
C13_Call ==
    LET op == rlast'.op
        n  == rlast'.node
    IN  /\ ~rd'.asserted
        /\ rd'.loaded = ChainKinds(rd', Cur(rd'))
        /\ Len(rd'.loaded) = Cardinality(OpenScopes(rd'))
        /\ CASE op \in {"leave", "unwind"} ->
                  /\ rd'.trace = << IF Kind(rd, n) = "object" THEN "unloadObject"
                                    ELSE "unloadArray" >>
                  /\ OpenScopes(rd') = OpenScopes(rd) \ {n}
                  /\ rd'.loaded = Front(rd.loaded)
             [] op \in {"obj", "ar", "obj(k)", "ar(k)"} ->
                  /\ ~Issued(rd', "unloadObject") /\ ~Issued(rd', "unloadArray")
                  /\ IF Threw(rd')
                     THEN /\ OpenScopes(rd') = OpenScopes(rd)
                          /\ rd'.loaded = rd.loaded
                     ELSE /\ Cardinality(OpenScopes(rd')) = Cardinality(OpenScopes(rd)) + 1
                          /\ Front(rd'.loaded) = rd.loaded
             [] OTHER ->
                  /\ OpenScopes(rd') = OpenScopes(rd)
                  /\ rd'.loaded = rd.loaded

\* C13: every reader scope is released on every exit path.  The backend gets
\* unloadObject / unloadArray once for each loadObject / loadArray that
\* returned, innermost first, also when a read, loadKey or loadIndex in the
\* scope raises a data error; a load that fails is followed by no unload; so
\* the backend's nesting is the open compound nodes, in their order.
C13_ScopesReleased == [][C13_Call]_vars

\* C13's case: a data error was raised inside two nested scopes, and the
\* exception has left both, which are unloaded.
C13_Witness ==
    /\ Threw(rd) /\ rlast.op = "unwind"
    /\ rd.loaded = <<>> /\ OpenScopes(rd) = {}
    /\ Cardinality({n \in NodeIds : rd.nodes[n].state = "dead"}) >= 2

\* One read of an optional key.
C20_Call ==
    LET op  == rlast'.op
        k   == rret'.key
        old == rret'.old
        o   == CurrentCompound(rd)
    IN  op \in {"optval", "val(k, optional)"} =>
            IF ~HasKey(o, k)
            THEN /\ ~Threw(rd')
                 /\ ~Issued(rd', "read")
                 /\ rd'.v = IF op = "optval" THEN old ELSE Empty
            ELSE /\ TimesIssued(rd', "read") = 1
                 /\ rd'.pending = ValueAt(o, k)
                 /\ rd'.v.has
                 /\ IF ValueAt(o, k).t = "int"
                    THEN ~Threw(rd') /\ rd'.v = Holding(ValueAt(o, k).v)
                    ELSE Threw(rd')

\* C20: when key k is absent from the open object, optval(k, v) leaves v
\* unchanged, and val(k, std::optional<T>& v) leaves v empty whatever it
\* held; neither fails nor reads from the backend.  When k is present, both
\* read one value, the one at k, into v, and the optional holds a value.
C20_AbsentOptionalKeys == [][C20_Call]_vars

\* C20's case: an optional that held a number has been read from an absent
\* key and is empty.
C20_Witness ==
    /\ rlast.op = "val(k, optional)"
    /\ rret.old = Holding(9)
    /\ ~HasKey(CurrentCompound(rd), rret.key)
    /\ rd.v = Empty /\ ~Threw(rd)

====
